---------------------------- MODULE Spec2Model ----------------------------
(***************************************************************************)
(* sltpwmt: a one-shot command line tool that adjusts the backlight        *)
(* brightness through two sysfs files, or the volume / mute state of the   *)
(* default PulseAudio sink and source through an asynchronous client      *)
(* connection (src/sltpwmt.c).                                             *)
(*                                                                         *)
(* The model follows one shell that invokes the tool several times in a    *)
(* row.  The sysfs files and the audio server's device state outlive an    *)
(* invocation; everything else is reset when the tool is started again.    *)
(* Text (file contents, argv[2], the bytes written) is a sequence of       *)
(* one-character strings, so that sscanf and snprintf are computed.        *)
(***************************************************************************)
EXTENDS Integers, Sequences, FiniteSets, TLC

(***************************************************************************)
(* Program constants.                                                      *)
(***************************************************************************)
IntMax == 2147483647
IntMin == -IntMax - 1
PA_VOLUME_NORM == 65536
PA_VOLUME_MUTED == 0
BufLen == 512

(***************************************************************************)
(* Bounds of the model.                                                    *)
(***************************************************************************)
MaxInvocations == 2
MaxRows == 2

(***************************************************************************)
(* Text.                                                                   *)
(***************************************************************************)
Digits == <<"0", "1", "2", "3", "4", "5", "6", "7", "8", "9">>
DigitSet == {Digits[i] : i \in 1..10}
DigitVal(c) == (CHOOSE i \in 1..10 : Digits[i] = c) - 1
(* The vertical tab (0x0b), for which TLA+ has no escape: this string      *)
(* stands for the one character.                                           *)
VT == "\\v"

(* isspace() in the C locale: what the %d of sscanf skips.                 *)
SpaceSet == {" ", "\t", "\n", "\r", "\f", VT}
TrimSet == {"\r", "\n", " "}

(* int + int in a 32-bit register: the sum modulo 2^32, taken without ever *)
(* leaving the 32-bit range.                                               *)
IntAdd(a, b) ==
    IF b > 0 /\ a > IntMax - b THEN ((a - IntMax) - 1) + ((b - IntMax) - 1)
    ELSE IF b < 0 /\ a < IntMin - b THEN ((a + IntMax) + 1) + ((b + IntMax) + 1)
    ELSE a + b

RECURSIVE SkipSpace(_)
SkipSpace(s) ==
    IF s # <<>> /\ Head(s) \in SpaceSet THEN SkipSpace(Tail(s)) ELSE s

(* The digits of %d are converted as strtol converts them, to a 64-bit     *)
(* long that stops at LONG_MAX or LONG_MIN, and the int stored is its low  *)
(* 32 bits (for a text beyond the range of int ISO C leaves the value      *)
(* undefined: this is what the C library of the build stores).  The        *)
(* magnitude is kept as four 16-bit limbs, lowest first; over: it has      *)
(* left 64 bits.                                                           *)
Limb == 65536

ZeroAcc == [limbs |-> <<0, 0, 0, 0>>, over |-> FALSE]

(* a * 10 + d, limb by limb.                                               *)
MulAddLimbs(a, d) ==
    LET c1 == a.limbs[1] * 10 + d
        c2 == a.limbs[2] * 10 + c1 \div Limb
        c3 == a.limbs[3] * 10 + c2 \div Limb
        c4 == a.limbs[4] * 10 + c3 \div Limb
    IN  [limbs |-> <<c1 % Limb, c2 % Limb, c3 % Limb, c4 % Limb>>,
         over |-> a.over \/ c4 >= Limb]

(* acc * 10 + d, with acc taken as a value (computed once).                *)
MulAdd(acc, d) == CHOOSE r \in {MulAddLimbs(a, d) : a \in {acc}} : TRUE

RECURSIVE ScanDigits(_, _)
ScanDigits(s, acc) ==
    IF s # <<>> /\ Head(s) \in DigitSet
    THEN ScanDigits(Tail(s), MulAdd(acc, DigitVal(Head(s))))
    ELSE acc

(* The low 32 bits of the magnitude, as an int.                            *)
LowInt(acc) ==
    IF acc.limbs[2] >= Limb \div 2
    THEN (acc.limbs[2] - Limb) * Limb + acc.limbs[1]
    ELSE acc.limbs[2] * Limb + acc.limbs[1]

(* The int stored for a magnitude and its sign.                            *)
StoredInt(neg, acc) ==
    IF neg
    THEN IF acc.over \/ acc.limbs[4] >= Limb \div 2 THEN 0      \* LONG_MIN
         ELSE IF LowInt(acc) = IntMin THEN IntMin ELSE -LowInt(acc)
    ELSE IF acc.over \/ acc.limbs[4] >= Limb \div 2 THEN -1    \* LONG_MAX
         ELSE LowInt(acc)

(* sscanf(buf, "%d", &v): count is the return value (-1 is EOF: the input  *)
(* ended before a conversion; 0 a matching failure), value what is stored. *)
Sscanf(buf) ==
    LET t == SkipSpace(buf)
        neg == t # <<>> /\ Head(t) = "-"
        signed == t # <<>> /\ Head(t) \in {"-", "+"}
        d == IF signed THEN Tail(t) ELSE t
    IN  IF t = <<>> THEN [count |-> -1, value |-> 0]
        ELSE IF d = <<>> \/ Head(d) \notin DigitSet THEN [count |-> 0, value |-> 0]
        ELSE [count |-> 1, value |-> StoredInt(neg, ScanDigits(d, ZeroAcc))]

RECURSIVE FormatNat(_)
FormatNat(n) ==
    IF n < 10 THEN <<Digits[n + 1]>>
    ELSE FormatNat(n \div 10) \o <<Digits[(n % 10) + 1]>>

(* snprintf(buf, buflen, "%d", n)                                          *)
Format(n) == IF n < 0 THEN <<"-">> \o FormatNat(-n) ELSE FormatNat(n)

RECURSIVE rtrim(_)
rtrim(str) ==
    IF str # <<>> /\ str[Len(str)] \in TrimSet
    THEN rtrim(SubSeq(str, 1, Len(str) - 1))
    ELSE str

Min(a, b) == IF a < b THEN a ELSE b

(***************************************************************************)
(* The sysfs accessor.  kind is what open and read (write) do this time.   *)
(***************************************************************************)
ReadKinds == {"openfail", "readerr", "ok"}
WriteKinds == {"openfail", "writeerr", "short", "full"}

(* rdlen is the return value, buf the text the caller's buffer then holds, *)
(* term the index at which the terminator was stored (none: <<>>).         *)
read_sysfs(kind, content, old, buflen) ==
    IF kind = "openfail" THEN [rdlen |-> -1, buf |-> old, term |-> <<>>]
    ELSE IF kind = "readerr" THEN [rdlen |-> -1, buf |-> old, term |-> <<-1>>]
    ELSE LET n == Min(Len(content), buflen - 1)
         IN  [rdlen |-> n, buf |-> SubSeq(content, 1, n), term |-> <<n>>]

(* wrlen is the return value, sent the bytes the file received.            *)
write_sysfs(kind, buf, nbytes) ==
    IF kind = "openfail" THEN [wrlen |-> -1, sent |-> <<>>]
    ELSE IF kind = "writeerr" THEN [wrlen |-> -1, sent |-> <<>>]
    ELSE IF kind = "short" THEN [wrlen |-> nbytes - 1, sent |-> SubSeq(buf, 1, nbytes - 1)]
    ELSE [wrlen |-> nbytes, sent |-> SubSeq(buf, 1, nbytes)]

(***************************************************************************)
(* The brightness controller.                                              *)
(***************************************************************************)
max_br_of(scan) == IF scan.count < 1 THEN IntMax ELSE scan.value

(* A variant that rejects only the end of input, not a matching failure.   *)
br_invalid_eof_only(scan) == scan.count < 0

br_invalid(scan) == scan.count < 1

br_clamp(br, max_br) == IF br < 0 THEN 0 ELSE IF br > max_br THEN max_br ELSE br

write_failed(wrlen) == wrlen = -1

(* do_brightness(delta) with the two files' contents and the outcome of    *)
(* each system call.  ret is the return value; writes the number of calls  *)
(* of write_sysfs; sent the bytes the brightness file received; out what   *)
(* was printed; terms the indices at which read_sysfs stored a terminator. *)
do_brightness(delta, maxContent, curContent, maxKind, curKind, wrKind) ==
    LET r1 == read_sysfs(maxKind, maxContent, <<>>, BufLen)
        none == [ret |-> 1, writes |-> 0, sent |-> <<>>, out |-> <<>>,
                 terms |-> r1.term, value |-> -1]
    IN  IF r1.rdlen = -1 THEN none
        ELSE
        LET max_br == max_br_of(Sscanf(r1.buf))
            r2 == read_sysfs(curKind, curContent, r1.buf, BufLen)
            sc == Sscanf(r2.buf)
        IN  IF r2.rdlen = -1 THEN [none EXCEPT !.terms = r1.term \o r2.term]
            ELSE IF br_invalid(sc) THEN [none EXCEPT !.terms = r1.term \o r2.term]
            ELSE
            LET br == br_clamp(IntAdd(sc.value, delta), max_br)
                buf == Format(br)
                w == write_sysfs(wrKind, buf, Len(buf))
            IN  [ret |-> IF write_failed(w.wrlen) THEN 1 ELSE 0,
                 writes |-> 1,
                 sent |-> w.sent,
                 out |-> IF write_failed(w.wrlen) THEN <<>>
                         ELSE <<[text |-> "Brightness: ", val |-> rtrim(buf)]>>,
                 terms |-> r1.term \o r2.term,
                 value |-> br]


(***************************************************************************)
(* State.                                                                  *)
(***************************************************************************)
VARIABLES
    pc,             \* where the process is: shell, main, do_brightness, ...
    args,           \* argv[1..]: argc = Len(args) + 1
    arg,            \* main's arg
    ret,            \* main's ret
    exitCode,       \* the exit code of the finished process (-1: none yet)
    stdout,         \* what this invocation printed
    maxFile,        \* content of the max_brightness file
    brFile,         \* content of the brightness file
    brCall,         \* what the call of do_brightness did (called: FALSE if none)
    pulse_mapi,     \* TRUE once set (non-NULL)
    pulse_arg,
    pulse_op,
    m,              \* the mainloop: "null", "live", "freed"
    pulse_context,  \* the context: "null", "live", "freed"
    released,       \* the resources released, in order
    quit,           \* the mainloop's quit flag and return value
    ctxState,       \* pa_context_get_state
    srvInfo,        \* the server-info request: "none", "pending", "done"
    devQuery,       \* the device-info request: "none", "sink", "source"
    devState,       \* its reply: "none", "waiting", "rows", "ended", "error"
    devSnap,        \* the device record the reply carries
    rows,           \* records delivered to the callback
    computed,       \* new_volume after the delta was added (op v)
    mutations,      \* the mutation requests issued, in order
    acked,          \* the status the first completion callback was given
    sinkMute,       \* the server: default sink's mute
    sourceMute,     \* the server: default source's mute
    sinkVolume,     \* the server: default sink's channel volumes
    invocations,    \* processes started so far
    start,          \* the devices' state when this process started
    prev,           \* summary of the process that ran before this one
    failure         \* the failures this invocation met

procVars == <<pc, args, arg, ret, exitCode, stdout>>
fileVars == <<maxFile, brFile, brCall>>
globVars == <<pulse_mapi, pulse_arg, pulse_op>>
sessVars == <<m, pulse_context, released, quit>>
chainVars == <<ctxState, srvInfo, devQuery, devState, devSnap, rows, computed,
               mutations, acked>>
serverVars == <<sinkMute, sourceMute, sinkVolume>>
histVars == <<invocations, start, prev, failure>>
vars == <<procVars, fileVars, globVars, sessVars, chainVars, serverVars, histVars>>

(***************************************************************************)
(* Inputs.                                                                 *)
(***************************************************************************)
NL == "\n"
MaxFiles == { <<"2", "5", "5", NL>>, <<"1", "0", "0">>, <<"a", "b", "c">>, <<>> }
BrFiles == { <<"2", "0", "0", NL>>, <<"0">>, <<"2", "5", "5">>, <<"x", "1">>, <<NL>> }
ArgTexts == { <<"0">>, <<"1">>, <<"-", "5", "0">>, <<"1", "0", "0">>,
              <<"2", "1", "4", "7", "4", "8", "3", "6", "4", "7">>, <<"u", "p">> }
Actions == { <<"b">>, <<"v">>, <<"s">>, <<"m">>, <<"x">>, <<"m", "i", "c">>, <<>> }
SinkVolumes == { <<>>, <<65536, 32768>>, <<64225>>, <<66845, 66845>> }

SinkIndex == 0
SourceIndex == 1

NoCall == [called |-> FALSE, delta |-> 0, before |-> <<>>, maxKind |-> "none", curKind |-> "none",
           wrKind |-> "none", ret |-> -1, writes |-> 0, sent |-> <<>>,
           terms |-> <<>>, value |-> -1]
NoSnap == [index |-> -1, mute |-> FALSE, volume |-> <<>>]
NoPrev == [op |-> "", ok |-> FALSE, sinkMute |-> FALSE, sourceMute |-> FALSE]
NoQuit == [req |-> FALSE, code |-> 0]

World == [sinkMute |-> sinkMute, sourceMute |-> sourceMute]

(* The first character of argv[1]; "" is the terminator of an empty one.   *)
ActionLetter(a) == IF a[1] = <<>> THEN "" ELSE a[1][1]

ProcInit ==
    /\ arg = -1 /\ ret = 1 /\ exitCode = -1 /\ stdout = <<>>
    /\ brCall = NoCall
    /\ pulse_mapi = FALSE /\ pulse_arg = 0 /\ pulse_op = ""
    /\ m = "null" /\ pulse_context = "null" /\ released = <<>> /\ quit = NoQuit
    /\ ctxState = "unconnected" /\ srvInfo = "none" /\ devQuery = "none"
    /\ devState = "none" /\ devSnap = NoSnap /\ rows = 0 /\ computed = 0
    /\ mutations = <<>> /\ acked = "none"
    /\ failure = {}

Init ==
    /\ pc = "shell" /\ args = <<>>
    /\ ProcInit
    /\ maxFile \in MaxFiles /\ brFile \in BrFiles
    /\ sinkMute \in BOOLEAN /\ sourceMute \in BOOLEAN
    /\ sinkVolume \in SinkVolumes
    /\ invocations = 0
    /\ start = World
    /\ prev = NoPrev


(***************************************************************************)
(* The audio callbacks, as functions of what they are handed.              *)
(***************************************************************************)
(* pulse_quit(e): the quit flag and return value of the loop afterwards.   *)
pulse_quit(mapi, q, e) == IF mapi THEN [req |-> TRUE, code |-> e] ELSE q

RECURSIVE pa_cvolume_max(_)
pa_cvolume_max(v) ==
    IF v = <<>> THEN PA_VOLUME_MUTED
    ELSE LET r == pa_cvolume_max(Tail(v))
         IN  IF Head(v) > r THEN Head(v) ELSE r

(* <<q, r>> with a * b = q * c + r and 0 <= r < c, for 0 <= a <= c: the    *)
(* 64-bit product of pa_cvolume_scale, taken without leaving 32 bits.      *)
RECURSIVE MulDivQR(_, _, _)
MulDivQR(a, b, c) ==
    IF b = 0 THEN <<0, 0>>
    ELSE LET h == MulDivQR(a, b \div 2, c)
             t == 2 * h[2] + (IF b % 2 = 1 THEN a ELSE 0)
         IN  <<2 * h[1] + (t \div c), t % c>>

pa_cvolume_scale(v, max) ==
    LET t == pa_cvolume_max(v)
    IN  IF t <= PA_VOLUME_MUTED THEN [c \in 1..Len(v) |-> max]
        ELSE [c \in 1..Len(v) |-> MulDivQR(v[c], max, t)[1]]

PA_CLAMP_UNLIKELY(x, low, high) ==
    IF x > high THEN high ELSE IF x < low THEN low ELSE x

(* Lines 136-137: the snap to normal.                                      *)
snap_volume(new_volume, normal_volume) ==
    IF /\ new_volume > (normal_volume * 98) \div 100
       /\ new_volume < (normal_volume * 102) \div 100
    THEN normal_volume ELSE new_volume

(* Lines 134-138: the volume asked of the server, from the largest channel *)
(* volume and the delta.                                                   *)
added_volume(maxvol, delta) == IntAdd(maxvol, delta)

target_volume(new_volume) ==
    PA_CLAMP_UNLIKELY(snap_volume(new_volume, PA_VOLUME_NORM),
                      PA_VOLUME_MUTED, PA_VOLUME_NORM)

(* pa_volume_snprint: "%3u%%" of the volume in percent of normal.          *)
pa_volume_snprint(v) ==
    LET d == FormatNat((v * 100 + PA_VOLUME_NORM \div 2) \div PA_VOLUME_NORM)
        pad == IF Len(d) = 1 THEN <<" ", " ">> ELSE IF Len(d) = 2 THEN <<" ">> ELSE <<>>
    IN  pad \o d \o <<"%">>

(* A variant that always mutes.                                            *)
new_mute_always(mute) == TRUE

(* new_mute = !i->mute                                                     *)
new_mute_of(mute) == ~mute

Request(kind, index, mute, volume) ==
    [kind |-> kind, index |-> index, mute |-> mute, volume |-> volume,
     state |-> "sent", delivered |-> FALSE]

(* A variant that takes only codes below -1 for a failure.                 *)
eol_failed_below(eol) == eol < -1

(* eol < 0: the query failed.                                              *)
eol_failed(eol) == eol < 0

(* A variant that takes every sink to have channels.                       *)
no_channels_never(volume) == FALSE

(* Line 128: i->volume.channels < 1                                        *)
no_channels(volume) == Len(volume) < 1

NoEffect(q) == [quit |-> q, issue |-> <<>>, out |-> <<>>, computed |-> 0]

(* do_pulse_vs(c, i, eol, userdata): what the callback leaves behind.      *)
do_pulse_vs(op, delta, mapi, q, i, eol) ==
    IF eol_failed(eol) THEN [NoEffect(q) EXCEPT !.quit = pulse_quit(mapi, q, 1)]
    ELSE IF eol # 0 THEN NoEffect(q)
    ELSE IF op = "s" THEN
        LET new_mute == new_mute_of(i.mute)
        IN  [NoEffect(q) EXCEPT
               !.issue = <<Request("set_sink_mute", i.index, new_mute, <<>>)>>,
               !.out = <<[text |-> IF new_mute THEN "Speakers muted" ELSE "Speakers on",
                          val |-> <<>>]>>]
    ELSE IF op = "v" THEN
        IF no_channels(i.volume) THEN [NoEffect(q) EXCEPT !.quit = pulse_quit(mapi, q, 0)]
        ELSE
        LET added == added_volume(pa_cvolume_max(i.volume), delta)
            new_volume == target_volume(added)
            new_cvol == pa_cvolume_scale(i.volume, new_volume)
        IN  [NoEffect(q) EXCEPT
               !.issue = <<Request("set_sink_volume", i.index, FALSE, new_cvol)>>,
               !.out = <<[text |-> "Speakers ", val |-> pa_volume_snprint(new_volume)]>>,
               !.computed = added]
    ELSE [NoEffect(q) EXCEPT !.quit = pulse_quit(mapi, q, 1)]

(* A variant that takes the end of the list for the end of the work.       *)
do_pulse_m_eol_quits(mapi, q, i, eol) ==
    IF eol_failed(eol) THEN [NoEffect(q) EXCEPT !.quit = pulse_quit(mapi, q, 1)]
    ELSE IF eol # 0 THEN [NoEffect(q) EXCEPT !.quit = pulse_quit(mapi, q, 0)]
    ELSE
        LET new_mute == new_mute_of(i.mute)
        IN  [NoEffect(q) EXCEPT
               !.issue = <<Request("set_source_mute", i.index, new_mute, <<>>)>>,
               !.out = <<[text |-> IF new_mute THEN "Mic muted" ELSE "Mic on",
                          val |-> <<>>]>>]

(* do_pulse_m(c, i, eol, userdata)                                         *)
do_pulse_m(mapi, q, i, eol) ==
    IF eol_failed(eol) THEN [NoEffect(q) EXCEPT !.quit = pulse_quit(mapi, q, 1)]
    ELSE IF eol # 0 THEN NoEffect(q)
    ELSE
        LET new_mute == new_mute_of(i.mute)
        IN  [NoEffect(q) EXCEPT
               !.issue = <<Request("set_source_mute", i.index, new_mute, <<>>)>>,
               !.out = <<[text |-> IF new_mute THEN "Mic muted" ELSE "Mic on",
                          val |-> <<>>]>>]

(* do_pulse_server_info: the device query it issues ("none": no case).     *)
do_pulse_server_info(op) ==
    IF op \in {"v", "s"} THEN "sink" ELSE IF op = "m" THEN "source" ELSE "none"

(* do_pulse_success(c, success, userdata)                                  *)
do_pulse_success(mapi, q, success) == pulse_quit(mapi, q, 0)

(* A variant whose signal handler reports a failure.                       *)
pulse_sigint_fails(mapi, q) == pulse_quit(mapi, q, 1)

(* pulse_sigint_callback                                                   *)
pulse_sigint_callback(mapi, q) == pulse_quit(mapi, q, 0)

(* A variant that asks for the server info in every state but Failed.      *)
pulse_sm_eager(mapi, q, state) ==
    IF state = "failed" THEN [quit |-> pulse_quit(mapi, q, 1), ask |-> FALSE]
    ELSE [quit |-> q, ask |-> TRUE]

(* pulse_sm(c, userdata): the quit state and whether server info is asked. *)
pulse_sm(mapi, q, state) ==
    IF state = "failed" THEN [quit |-> pulse_quit(mapi, q, 1), ask |-> FALSE]
    ELSE IF state = "ready" THEN [quit |-> q, ask |-> TRUE]
    ELSE [quit |-> q, ask |-> FALSE]


(***************************************************************************)
(* The shell starts the tool.                                              *)
(***************************************************************************)
Finished == pc \in {"done", "crashed"}

Summary ==
    IF pc = "done" /\ exitCode = 0 /\ acked = "ok" /\ pulse_op \in {"s", "m"}
    THEN [op |-> pulse_op, ok |-> exitCode = 0 /\ acked = "ok",
          sinkMute |-> start.sinkMute, sourceMute |-> start.sourceMute]
    ELSE NoPrev

Start(a) ==
    /\ pc = "shell" \/ Finished
    /\ invocations < MaxInvocations
    /\ invocations' = invocations + 1
    /\ prev' = Summary
    /\ start' = World
    /\ args' = a
    /\ pc' = "main"
    /\ arg' = -1 /\ ret' = 1 /\ exitCode' = -1 /\ stdout' = <<>>
    /\ brCall' = NoCall
    /\ pulse_mapi' = FALSE /\ pulse_arg' = 0 /\ pulse_op' = ""
    /\ m' = "null" /\ pulse_context' = "null" /\ released' = <<>> /\ quit' = NoQuit
    /\ ctxState' = "unconnected" /\ srvInfo' = "none" /\ devQuery' = "none"
    /\ devState' = "none" /\ devSnap' = NoSnap /\ rows' = 0 /\ computed' = 0
    /\ mutations' = <<>> /\ acked' = "none"
    /\ failure' = {}
    /\ UNCHANGED <<maxFile, brFile, serverVars>>

AllArgs ==
    {<<>>} \cup {<<a>> : a \in Actions} \cup {<<a, t>> : a \in Actions, t \in ArgTexts}

Invoke == \E a \in AllArgs : Start(a)

(***************************************************************************)
(* main, lines 221-253: the arguments and the dispatch.  to is where       *)
(* control goes ("done": main returned without reaching fflush).           *)
(***************************************************************************)
(* A variant that rejects the second argument only when it is empty.       *)
arg_invalid_eof_only(argc, scan) == argc >= 3 /\ scan.count < 0

(* Line 228: a second argument is there and sscanf converts nothing.       *)
arg_invalid(argc, scan) == argc >= 3 /\ scan.count < 1

main_dispatch(a) ==
    LET argc == Len(a) + 1
        scan == IF argc >= 3 THEN Sscanf(a[2]) ELSE [count |-> 1, value |-> -1]
        letter == ActionLetter(a)
        stop == [to |-> "done", arg |-> scan.value, ret |-> 1, op |-> "", parg |-> 0]
    IN  IF argc < 2 THEN [stop EXCEPT !.arg = -1]
        ELSE IF arg_invalid(argc, scan) THEN [stop EXCEPT !.arg = -1]
        ELSE IF letter = "b" THEN
            IF argc < 3 THEN stop ELSE [stop EXCEPT !.to = "do_brightness"]
        ELSE IF letter = "v" /\ argc < 3 THEN stop
        ELSE IF letter \in {"v", "s", "m"} THEN
            [stop EXCEPT !.to = "mainloop_new", !.op = letter, !.parg = scan.value]
        ELSE [stop EXCEPT !.to = "flush"]

Main ==
    /\ pc = "main"
    /\ LET d == main_dispatch(args)
       IN  /\ pc' = d.to
           /\ arg' = d.arg
           /\ ret' = d.ret
           /\ exitCode' = IF d.to = "done" THEN d.ret ELSE exitCode
           /\ pulse_op' = d.op
           /\ pulse_arg' = d.parg
           /\ failure' = IF d.to \in {"done", "flush"} THEN {"usage"} ELSE failure
    /\ UNCHANGED <<args, stdout, fileVars, pulse_mapi, sessVars, chainVars,
                   serverVars, invocations, start, prev>>

(***************************************************************************)
(* main, line 241: ret = do_brightness(arg).                               *)
(***************************************************************************)
BrFailures(r, maxKind, curUsed, wrUsed) ==
    (IF maxKind # "ok" \/ curUsed \notin {"ok", "none"} \/ wrUsed \notin {"full", "none"}
     THEN {"io"} ELSE {})
    \cup (IF maxKind = "ok" /\ curUsed = "ok" /\ r.writes = 0 THEN {"parse"} ELSE {})

DoBrightness ==
    /\ pc = "do_brightness"
    /\ \E maxKind \in ReadKinds, curKind \in ReadKinds, wrKind \in WriteKinds :
         LET r == do_brightness(arg, maxFile, brFile, maxKind, curKind, wrKind)
             curUsed == IF maxKind = "ok" THEN curKind ELSE "none"
             wrUsed == IF r.writes = 1 THEN wrKind ELSE "none"
         IN  /\ ret' = r.ret
             /\ stdout' = stdout \o r.out
             /\ brFile' = IF r.sent # <<>> THEN r.sent ELSE brFile
             /\ brCall' = [called |-> TRUE, delta |-> arg, before |-> brFile, maxKind |-> maxKind,
                           curKind |-> curUsed, wrKind |-> wrUsed, ret |-> r.ret,
                           writes |-> r.writes, sent |-> r.sent, terms |-> r.terms,
                           value |-> r.value]
             /\ failure' = failure \cup BrFailures(r, maxKind, curUsed, wrUsed)
    /\ pc' = "flush"
    /\ UNCHANGED <<args, arg, exitCode, maxFile, globVars, sessVars, chainVars,
                   serverVars, invocations, start, prev>>

(***************************************************************************)
(* main, lines 305-306: fflush(stdout); return ret.                        *)
(***************************************************************************)
Flush ==
    /\ pc = "flush"
    /\ pc' = "done"
    /\ exitCode' = ret
    /\ UNCHANGED <<args, arg, ret, stdout, fileVars, globVars, sessVars, chainVars,
                   serverVars, histVars>>


(***************************************************************************)
(* main, lines 255-281: the session is set up.  ok is what the library     *)
(* call returns this time.                                                 *)
(***************************************************************************)
MainloopNew ==
    /\ pc = "mainloop_new"
    /\ \E ok \in BOOLEAN :
         IF ok
         THEN /\ m' = "live" /\ pulse_mapi' = TRUE /\ pc' = "signal_init"
              /\ UNCHANGED <<exitCode, failure>>
         ELSE /\ pc' = "done" /\ exitCode' = 1 /\ failure' = failure \cup {"init"}
              /\ UNCHANGED <<m, pulse_mapi>>
    /\ UNCHANGED <<args, arg, ret, stdout, fileVars, pulse_arg, pulse_op,
                   pulse_context, released, quit, chainVars, serverVars,
                   invocations, start, prev>>

SignalInit ==
    /\ pc = "signal_init"
    /\ \E ok \in BOOLEAN :
         IF ok
         THEN /\ pc' = "context_new"
              /\ UNCHANGED <<exitCode, quit, failure>>
         ELSE /\ quit' = pulse_quit(pulse_mapi, quit, 1)
              /\ pc' = "done" /\ exitCode' = 1 /\ failure' = failure \cup {"init"}
    /\ UNCHANGED <<args, arg, ret, stdout, fileVars, globVars, m, pulse_context,
                   released, chainVars, serverVars, invocations, start, prev>>

ContextNew ==
    /\ pc = "context_new"
    /\ \E ok \in BOOLEAN :
         IF ok
         THEN /\ pulse_context' = "live" /\ pc' = "connect"
              /\ UNCHANGED <<ret, failure>>
         ELSE /\ ret' = 1 /\ pc' = "exit" /\ failure' = failure \cup {"init"}
              /\ UNCHANGED pulse_context
    /\ UNCHANGED <<args, arg, exitCode, stdout, fileVars, globVars, m, released,
                   quit, chainVars, serverVars, invocations, start, prev>>

(* pa_context_connect: it succeeds (the state callback sees Connecting),   *)
(* it is refused (the state callback sees Failed), or it rejects the call. *)
Connect ==
    /\ pc = "connect"
    /\ \E how \in {"ok", "refused", "invalid"} :
         LET s == IF how = "ok" THEN "connecting"
                  ELSE IF how = "refused" THEN "failed" ELSE ctxState
             sm == IF how = "invalid" THEN [quit |-> quit, ask |-> FALSE]
                   ELSE pulse_sm(pulse_mapi, quit, s)
         IN  /\ ctxState' = s
             /\ quit' = sm.quit
             /\ srvInfo' = IF sm.ask THEN "pending" ELSE srvInfo
             /\ IF how = "ok"
                THEN pc' = "run" /\ UNCHANGED <<ret, failure>>
                ELSE ret' = 1 /\ pc' = "exit" /\ failure' = failure \cup {"connection"}
    /\ UNCHANGED <<args, arg, exitCode, stdout, fileVars, globVars, m, pulse_context,
                   released, devQuery, devState, devSnap, rows, computed, mutations,
                   acked, serverVars, invocations, start, prev>>

(***************************************************************************)
(* pa_mainloop_run, line 283: the loop dispatches one callback at a time   *)
(* until quit is asked for.                                                *)
(***************************************************************************)
Running == pc = "run" /\ ~quit.req

NextStates(s) ==
    IF s = "connecting" THEN {"authorizing", "failed"}
    ELSE IF s = "authorizing" THEN {"setting_name", "failed"}
    ELSE IF s = "setting_name" THEN {"ready", "failed"}
    ELSE IF s = "ready" THEN {"failed"}
    ELSE {}

StateChange ==
    /\ Running
    /\ \E s \in NextStates(ctxState) :
         LET sm == pulse_sm(pulse_mapi, quit, s)
         IN  /\ ctxState' = s
             /\ quit' = sm.quit
             /\ srvInfo' = IF sm.ask THEN "pending" ELSE srvInfo
             /\ failure' = IF s = "failed" THEN failure \cup {"connection"} ELSE failure
    /\ UNCHANGED <<procVars, fileVars, globVars, m, pulse_context, released,
                   devQuery, devState, devSnap, rows, computed, mutations, acked,
                   serverVars, invocations, start, prev>>

(* The server-info reply: with a record, or (a failed query) with none,    *)
(* which do_pulse_server_info dereferences.                                *)
ServerInfoReply ==
    /\ Running /\ srvInfo = "pending"
    /\ srvInfo' = "done"
    /\ \E ok \in BOOLEAN :
         IF ok
         THEN /\ devQuery' = do_pulse_server_info(pulse_op)
              /\ devState' = IF do_pulse_server_info(pulse_op) = "none"
                             THEN devState ELSE "waiting"
              /\ UNCHANGED <<pc, failure>>
         ELSE /\ pc' = "crashed" /\ failure' = failure \cup {"query"}
              /\ UNCHANGED <<devQuery, devState>>
    /\ UNCHANGED <<args, arg, ret, exitCode, stdout, fileVars, globVars, sessVars,
                   ctxState, devSnap, rows, computed, mutations, acked, serverVars,
                   invocations, start, prev>>

DeviceRecord ==
    IF devQuery = "sink"
    THEN [index |-> SinkIndex, mute |-> sinkMute, volume |-> sinkVolume]
    ELSE [index |-> SourceIndex, mute |-> sourceMute, volume |-> <<>>]

(* One call of the device-info callback.                                   *)
DevCallback(i, eol) ==
    LET e == IF devQuery = "sink"
             THEN do_pulse_vs(pulse_op, pulse_arg, pulse_mapi, quit, i, eol)
             ELSE do_pulse_m(pulse_mapi, quit, i, eol)
    IN  /\ quit' = e.quit
        /\ mutations' = mutations \o e.issue
        /\ stdout' = stdout \o e.out
        /\ computed' = IF e.issue # <<>> THEN e.computed ELSE computed

(* A record of the reply: eol = 0.  The records of one reply show the      *)
(* device as it was when the server answered.                              *)
DevInfoRow ==
    /\ Running /\ devState \in {"waiting", "rows"} /\ rows < MaxRows
    /\ LET i == IF rows = 0 THEN DeviceRecord ELSE devSnap
       IN  /\ devSnap' = i
           /\ DevCallback(i, 0)
    /\ devState' = "rows"
    /\ rows' = rows + 1
    /\ UNCHANGED <<pc, args, arg, ret, exitCode, fileVars, globVars, m,
                   pulse_context, released, ctxState, srvInfo, devQuery, acked,
                   serverVars, histVars>>

(* The end of the reply: eol > 0.                                          *)
DevInfoEol ==
    /\ Running /\ devState \in {"waiting", "rows"}
    /\ DevCallback(NoSnap, 1)
    /\ devState' = "ended"
    /\ UNCHANGED <<pc, args, arg, ret, exitCode, fileVars, globVars, m,
                   pulse_context, released, ctxState, srvInfo, devQuery, devSnap,
                   rows, acked, serverVars, histVars>>

(* The query failed: eol < 0, and no record.                               *)
DevInfoError ==
    /\ Running /\ devState = "waiting"
    /\ DevCallback(NoSnap, -1)
    /\ devState' = "error"
    /\ failure' = failure \cup {"query"}
    /\ UNCHANGED <<pc, args, arg, ret, exitCode, fileVars, globVars, m,
                   pulse_context, released, ctxState, srvInfo, devQuery, devSnap,
                   rows, acked, serverVars, invocations, start, prev>>


(***************************************************************************)
(* The server carries out the oldest request it has not yet answered; the  *)
(* completion is delivered to do_pulse_success later, by the loop.         *)
(***************************************************************************)
FirstSent ==
    IF \E k \in 1..Len(mutations) : mutations[k].state = "sent"
    THEN CHOOSE k \in 1..Len(mutations) :
           /\ mutations[k].state = "sent"
           /\ \A j \in 1..(k - 1) : mutations[j].state # "sent"
    ELSE 0

FirstUndelivered ==
    IF \E k \in 1..Len(mutations) : ~mutations[k].delivered
    THEN CHOOSE k \in 1..Len(mutations) :
           /\ ~mutations[k].delivered
           /\ \A j \in 1..(k - 1) : mutations[j].delivered
    ELSE 0

ServerProcess ==
    /\ pc \in {"run", "exit"} /\ pulse_context = "live"
    /\ FirstSent # 0
    /\ LET k == FirstSent
           r == mutations[k]
       IN  \E success \in BOOLEAN :
             /\ mutations' = [mutations EXCEPT ![k].state = IF success THEN "ok" ELSE "fail"]
             /\ sinkMute' = IF success /\ r.kind = "set_sink_mute" THEN r.mute ELSE sinkMute
             /\ sourceMute' = IF success /\ r.kind = "set_source_mute" THEN r.mute
                              ELSE sourceMute
             /\ sinkVolume' = IF success /\ r.kind = "set_sink_volume" THEN r.volume
                              ELSE sinkVolume
    /\ UNCHANGED <<procVars, fileVars, globVars, sessVars, ctxState, srvInfo, devQuery,
                   devState, devSnap, rows, computed, acked, histVars>>

MutationAck ==
    /\ Running
    /\ FirstUndelivered # 0
    /\ LET k == FirstUndelivered
           r == mutations[k]
       IN  /\ r.state # "sent"
           /\ quit' = do_pulse_success(pulse_mapi, quit, r.state = "ok")
           /\ mutations' = [mutations EXCEPT ![k].delivered = TRUE]
           /\ acked' = IF acked = "none" THEN r.state ELSE acked
           /\ failure' = IF r.state = "fail" THEN failure \cup {"mutation"} ELSE failure
    /\ UNCHANGED <<procVars, fileVars, globVars, m, pulse_context, released, ctxState,
                   srvInfo, devQuery, devState, devSnap, rows, computed, serverVars,
                   invocations, start, prev>>

(* SIGINT or SIGTERM, dispatched by the loop.                              *)
Signal ==
    /\ Running
    /\ quit' = pulse_sigint_callback(pulse_mapi, quit)
    /\ UNCHANGED <<procVars, fileVars, globVars, m, pulse_context, released,
                   chainVars, serverVars, histVars>>

(* pa_mainloop_run fails, lines 283-287.                                   *)
RunFail ==
    /\ Running
    /\ ret' = 1
    /\ pc' = "exit"
    /\ failure' = failure \cup {"loop"}
    /\ UNCHANGED <<args, arg, exitCode, stdout, fileVars, globVars, sessVars,
                   chainVars, serverVars, invocations, start, prev>>

(* pa_mainloop_run returns: ret is what the loop was asked to quit with.   *)
LoopReturn ==
    /\ pc = "run" /\ quit.req
    /\ ret' = quit.code
    /\ pc' = "exit"
    /\ UNCHANGED <<args, arg, exitCode, stdout, fileVars, globVars, sessVars,
                   chainVars, serverVars, histVars>>

(* main, lines 288-297: the exit label.                                    *)
ExitLabel ==
    /\ pc = "exit"
    /\ released' = released
                   \o (IF pulse_context = "live" THEN <<"context">> ELSE <<>>)
                   \o (IF m = "live" THEN <<"loop">> ELSE <<>>)
    /\ pulse_context' = IF pulse_context = "live" THEN "freed" ELSE pulse_context
    /\ m' = IF m = "live" THEN "freed" ELSE m
    /\ pc' = "flush"
    /\ UNCHANGED <<args, arg, ret, exitCode, stdout, fileVars, globVars, quit,
                   chainVars, serverVars, histVars>>

(***************************************************************************)
(* Specifications.                                                         *)
(***************************************************************************)
Next ==
    \/ Invoke \/ Main \/ DoBrightness \/ Flush
    \/ MainloopNew \/ SignalInit \/ ContextNew \/ Connect
    \/ StateChange \/ ServerInfoReply
    \/ DevInfoRow \/ DevInfoEol \/ DevInfoError
    \/ ServerProcess \/ MutationAck
    \/ Signal \/ RunFail \/ LoopReturn \/ ExitLabel

Spec == Init /\ [][Next]_vars

(* The tool used for the brightness alone (and misused): the audio server  *)
(* is never reached, and its devices stay as they are.                     *)
IsAudio(a) == a # <<>> /\ ActionLetter(a) \in {"v", "s", "m"}

InitBrightness ==
    Init /\ sinkMute = FALSE /\ sourceMute = FALSE /\ sinkVolume = <<>>

InvokeBrightness == \E a \in {x \in AllArgs : ~IsAudio(x)} : Start(a)

NextBrightness == InvokeBrightness \/ Main \/ DoBrightness \/ Flush

SpecBrightness == InitBrightness /\ [][NextBrightness]_vars

(* The tool used for the audio devices alone: the sysfs files are never    *)
(* opened.                                                                 *)
InitAudio == Init /\ maxFile = <<>> /\ brFile = <<"0">>

InvokeAudio == \E a \in {x \in AllArgs : IsAudio(x)} : Start(a)

NextAudio ==
    \/ InvokeAudio \/ Main \/ Flush
    \/ MainloopNew \/ SignalInit \/ ContextNew \/ Connect
    \/ StateChange \/ ServerInfoReply
    \/ DevInfoRow \/ DevInfoEol \/ DevInfoError
    \/ ServerProcess \/ MutationAck
    \/ Signal \/ RunFail \/ LoopReturn \/ ExitLabel

SpecAudio == InitAudio /\ [][NextAudio]_vars

(* The audio path when nothing stalls: main runs on, the server answers    *)
(* every request it was sent (the server info, the device query, the       *)
(* mutation), and the loop dispatches the completions it has.  The records *)
(* a device reply carries before its end, a signal, a failure of the loop  *)
(* or of the connection, and a further invocation may come or not.  No     *)
(* behaviour returns to a state it has left, so one fairness condition on  *)
(* all of these steps says that none of them waits forever.                *)
InitAudioFair ==
    /\ InitAudio
    /\ sinkMute = FALSE /\ sourceMute = FALSE /\ sinkVolume = <<65536, 32768>>

(* What main, the server and the loop do unprompted.                       *)
Progress ==
    \/ Main \/ Flush
    \/ MainloopNew \/ SignalInit \/ ContextNew \/ Connect
    \/ ServerInfoReply
    \/ DevInfoEol \/ DevInfoError
    \/ ServerProcess \/ MutationAck
    \/ LoopReturn \/ ExitLabel

FairAudio == WF_vars(Progress)

SpecAudioFair == InitAudioFair /\ [][NextAudio]_vars /\ FairAudio

(* The tool on one machine, used for everything it does: a backlight at    *)
(* 200 of 255 and a two-channel sink at normal volume.                     *)
InitMachine ==
    /\ Init
    /\ maxFile = <<"2", "5", "5", NL>> /\ brFile = <<"2", "0", "0", NL>>
    /\ sinkMute = FALSE /\ sourceMute = FALSE /\ sinkVolume = <<65536, 32768>>

SpecMachine == InitMachine /\ [][Next]_vars


(***************************************************************************)
(* Properties of the brightness controller (checked under SpecBrightness). *)
(***************************************************************************)
(* clamp(cur + d, 0, mx) of the mathematical sum, for mx >= 0, taken       *)
(* without forming a sum that leaves 32 bits.                              *)
ClampOfSum(cur, d, mx) ==
    IF d > 0 /\ cur > mx - d THEN mx
    ELSE IF d < 0 /\ cur < 0 THEN 0
    ELSE IF cur + d < 0 THEN 0 ELSE IF cur + d > mx THEN mx ELSE cur + d

MaxScan == Sscanf(maxFile)
CurScan == Sscanf(brCall.before)
SentScan == Sscanf(brCall.sent)

(* C1: for every current >= 0, max >= 0 and every delta, the value written *)
(* to the brightness file is clamp(current + delta, 0, max), so it lies in *)
(* [0, max]; from 0 a negative delta writes 0, from max a positive delta   *)
(* writes max.                                                             *)
C1_WrittenIsClampOfSum ==
    (/\ brCall.called /\ brCall.wrKind = "full"
     /\ MaxScan.count = 1 /\ MaxScan.value >= 0 /\ CurScan.value >= 0)
    => /\ SentScan.count = 1
       /\ SentScan.value = ClampOfSum(CurScan.value, brCall.delta, MaxScan.value)
       /\ SentScan.value >= 0 /\ SentScan.value <= MaxScan.value
       /\ (CurScan.value = 0 /\ brCall.delta < 0) => SentScan.value = 0
       /\ (CurScan.value = MaxScan.value /\ brCall.delta > 0)
             => SentScan.value = MaxScan.value

(* C7: when the content of the brightness file does not parse as an        *)
(* integer, do_brightness returns nonzero, never calls write_sysfs, leaves *)
(* the file as it was and prints nothing, whatever the delta and the       *)
(* max_brightness file; the process exits 1.                               *)
C7_InvalidCurrentNoWrite ==
    (brCall.called /\ CurScan.count < 1)
    => /\ brCall.ret # 0
       /\ brCall.writes = 0
       /\ brFile = brCall.before
       /\ stdout = <<>>
       /\ ret # 0
       /\ pc = "done" => exitCode = 1

C7_Witness ==
    /\ pc = "done" /\ brCall.called
    /\ brCall.maxKind = "ok" /\ brCall.curKind = "ok"
    /\ CurScan.count = 0
    /\ brCall.delta # 0

(* C8: when the max_brightness file is read but does not parse, the        *)
(* ceiling is 2147483647: for a current value that parses, do_brightness   *)
(* writes clamp(current + delta, 0, 2147483647) and returns 0 (the write   *)
(* itself succeeding).                                                     *)
C8_UnparseableMaxIsNoCeiling ==
    (/\ brCall.called /\ brCall.maxKind = "ok" /\ MaxScan.count < 1
     /\ brCall.curKind = "ok" /\ CurScan.count = 1 /\ brCall.wrKind = "full")
    => /\ brCall.ret = 0
       /\ SentScan.count = 1
       /\ SentScan.value = ClampOfSum(CurScan.value, brCall.delta, IntMax)

(* C9: a short write is a failure: do_brightness returns nonzero, prints   *)
(* no confirmation, and the process exits 1.                               *)
C9_ShortWriteFails ==
    (brCall.called /\ brCall.wrKind = "short")
    => /\ brCall.ret # 0
       /\ stdout = <<>>
       /\ pc = "done" => exitCode = 1


(***************************************************************************)
(* Properties of the audio path (checked under SpecAudio).                 *)
(***************************************************************************)
IsVolumeRequest(r) == r.kind = "set_sink_volume"

(* The largest channel volume of the record the callback was handed.       *)
SnapMaxVolume == pa_cvolume_max(devSnap.volume)

(* max channel volume + delta lies in [98%, 102%] of normal, bounds        *)
(* included: 98 * normal <= 100 * (maxvol + d) <= 102 * normal.            *)
InSnapBand(maxvol, d) ==
    /\ d >= ((PA_VOLUME_NORM * 98 + 99) \div 100) - maxvol
    /\ d <= ((PA_VOLUME_NORM * 102) \div 100) - maxvol

(* C2: for op v, with computed = max channel volume + delta: inside the    *)
(* band [98%, 102%] of normal the volume asked of the server is exactly    *)
(* normal, outside it is computed clamped to [0, normal].                  *)
C2_SnapRule ==
    \A k \in 1..Len(mutations) :
        IsVolumeRequest(mutations[k])
        => pa_cvolume_max(mutations[k].volume)
             = IF InSnapBand(SnapMaxVolume, pulse_arg) THEN PA_VOLUME_NORM
               ELSE ClampOfSum(SnapMaxVolume, pulse_arg, PA_VOLUME_NORM)

(* C3: the exit code is 0 exactly when the invocation met no failure, and  *)
(* 1 otherwise; a mute-set or volume-set request that the server completes *)
(* with a failure status is such a failure.                                *)
C3_ExitCodeTellsFailure ==
    pc = "done" => /\ exitCode \in {0, 1}
                   /\ exitCode = 0 <=> failure = {}

(* C4: a positive end-of-list with no record before it makes the callback  *)
(* ask the loop to quit with 0, and no mutation is issued.                 *)
C4_NoDeviceQuitsWithSuccess ==
    (devState = "ended" /\ rows = 0)
    => /\ quit.req /\ quit.code = 0
       /\ mutations = <<>>

(* C5: when main has returned, every resource that was created has been    *)
(* released exactly once, the connection before the loop.                  *)
C5_ReleasedOnEveryExit ==
    pc = "done"
    => /\ m # "live" /\ pulse_context # "live"
       /\ released = (IF pulse_context = "freed" THEN <<"context">> ELSE <<>>)
                     \o (IF m = "freed" THEN <<"loop">> ELSE <<>>)

(* C6: two successful invocations in a row of the same mute toggle (s on   *)
(* the default sink, m on the default source), each asking for             *)
(* set-mute(!mute) on the index the record reported, leave the device's    *)
(* mute as it was before the first.                                        *)
C6_ToggleTwiceIsIdentity ==
    (/\ pc = "done" /\ Summary.ok /\ prev.ok
     /\ pulse_op \in {"s", "m"} /\ prev.op = pulse_op)
    => /\ pulse_op = "s" => sinkMute = prev.sinkMute
       /\ pulse_op = "m" => sourceMute = prev.sourceMute
       /\ mutations # <<>>
       /\ \A k \in 1..Len(mutations) :
            /\ mutations[k].kind = IF pulse_op = "s" THEN "set_sink_mute"
                                   ELSE "set_source_mute"
            /\ mutations[k].index = devSnap.index
            /\ mutations[k].mute = ~devSnap.mute

C6_Witness ==
    /\ pc = "done" /\ Summary.ok /\ prev.ok
    /\ pulse_op = "m" /\ prev.op = "m"
    /\ sourceMute = TRUE /\ start.sourceMute = FALSE

(* C10: a negative end-of-list code asks the loop to quit with 1: no       *)
(* mutation is issued, nothing is printed, main leaves the loop with       *)
(* ret = 1, releases the connection and then the loop, and exits 1.        *)
C10_QueryErrorFails ==
    devState = "error"
    => /\ quit.req /\ quit.code = 1
       /\ mutations = <<>>
       /\ stdout = <<>>
       /\ pc \in {"run", "exit", "flush", "done"}
       /\ pc \in {"exit", "flush", "done"} => ret = 1
       /\ pc \in {"flush", "done"} => released = <<"context", "loop">>
       /\ pc = "done" => exitCode = 1

C10_Witness ==
    /\ devState = "error" /\ pc = "done" /\ exitCode = 1
    /\ devQuery = "sink"

(***************************************************************************)
(* Properties of the callback chain (checked under SpecAudio).             *)
(***************************************************************************)
(* The requests whose completion do_pulse_success has not yet been handed. *)
InFlight == {k \in 1..Len(mutations) : ~mutations[k].delivered}

(* C11: whatever the server delivers during one invocation, at most one    *)
(* mutation request (set-sink-mute, set-sink-volume, set-source-mute) is   *)
(* in flight at any time, and no mutation is issued a second time.         *)
C11_OneMutationInFlight ==
    /\ Cardinality(InFlight) <= 1
    /\ \A j, k \in 1..Len(mutations) :
         (mutations[j].kind = mutations[k].kind
          /\ mutations[j].index = mutations[k].index) => j = k

(* The loop was asked to quit with success.                                *)
SuccessQuit == quit.req /\ quit.code = 0

(* What main does once the loop was asked to quit with success: the loop   *)
(* returns 0, the exit label releases the connection and then the loop,    *)
(* and the process exits 0.                                                *)
LeavesWithSuccess ==
    (SuccessQuit /\ pc \in {"run", "exit", "flush"}) =>
        /\ quit' = quit
        /\ pc = "run" => /\ pc' \in {"run", "exit"}
                         /\ pc' = "exit" => ret' = 0
        /\ pc = "exit" => /\ ret = 0
                          /\ pc' \in {"exit", "flush"}
                          /\ pc' = "flush" => /\ released' = <<"context", "loop">>
                                              /\ pulse_context' = "freed"
                                              /\ m' = "freed"
        /\ pc = "flush" => pc' = "done" /\ exitCode' = 0

(* C12: a signal dispatched by the running loop, wherever the chain is,    *)
(* only asks the loop to quit with 0: the handler issues and cancels no    *)
(* request and leaves the connection alone, and from there the loop        *)
(* returns, the session is released and the process exits 0.               *)
C12_SignalOnlyRequestsQuit ==
    [][ /\ Signal => /\ quit' = [req |-> TRUE, code |-> 0]
                     /\ UNCHANGED <<mutations, pulse_context, m, ctxState, srvInfo,
                                    devQuery, devState, rows, stdout, serverVars>>
        /\ LeavesWithSuccess ]_vars

(* The signal came while a mutation was awaiting its completion: the       *)
(* process has exited 0 with the request still unanswered to it.           *)
C12_Witness ==
    /\ pc = "done" /\ SuccessQuit /\ exitCode = 0
    /\ mutations # <<>> /\ acked = "none"
    /\ released = <<"context", "loop">>

(***************************************************************************)
(* Properties of the command line (checked under SpecMachine).             *)
(***************************************************************************)
(* The command lines the usage describes as errors: no action, an action   *)
(* letter other than b, v, s, m, b or v without a second argument, and a   *)
(* second argument that is not a number.                                   *)
UsageError(a) ==
    \/ a = <<>>
    \/ ActionLetter(a) \notin {"b", "v", "s", "m"}
    \/ Len(a) = 1 /\ ActionLetter(a) \in {"b", "v"}
    \/ Len(a) >= 2 /\ Sscanf(a[2]).count < 1

(* C13: a command line that is a usage error makes main return 1, and      *)
(* nothing was attempted: do_brightness was not called (no sysfs file read *)
(* or written), no loop and no connection were created, no request was     *)
(* issued and nothing was printed.                                         *)
C13_UsageErrorNoSideEffect ==
    (pc \notin {"shell", "main"} /\ UsageError(args)) =>
        /\ pc \in {"flush", "done"}
        /\ ret = 1
        /\ pc = "done" => exitCode = 1
        /\ ~brCall.called
        /\ m = "null" /\ pulse_context = "null" /\ ~pulse_mapi
        /\ ctxState = "unconnected" /\ mutations = <<>>
        /\ stdout = <<>>

(* `sltpwmt s up` has returned 1.                                          *)
C13_Witness ==
    /\ pc = "done" /\ exitCode = 1
    /\ Len(args) = 2 /\ ActionLetter(args) = "s" /\ Sscanf(args[2]).count < 1

(***************************************************************************)
(* More properties of the audio path (checked under SpecAudio).            *)
(***************************************************************************)
(* The sink record do_pulse_vs was handed for v has no channel.            *)
ZeroChannelRecord == pulse_op = "v" /\ rows > 0 /\ Len(devSnap.volume) = 0

(* C14: for v, a sink record with zero channels asks the loop to quit with *)
(* 0 at once: no set-sink-volume (no request at all) is ever issued,       *)
(* nothing is printed, and the process exits 0.                            *)
C14_ZeroChannelsQuitsWithSuccess ==
    ZeroChannelRecord =>
        /\ SuccessQuit
        /\ mutations = <<>>
        /\ stdout = <<>>
        /\ pc \in {"run", "exit", "flush", "done"}
        /\ pc \in {"flush", "done"} => ret = 0
        /\ pc = "done" => exitCode = 0

C14_Witness ==
    /\ ZeroChannelRecord /\ pc = "done" /\ exitCode = 0
    /\ devState = "rows" /\ sinkVolume = <<>>

(***************************************************************************)
(* Property of stdout (checked under SpecMachine).                         *)
(***************************************************************************)
(* write_sysfs put bytes of the new brightness into the file.              *)
BrightnessWritten ==
    brCall.called /\ brCall.writes = 1 /\ brCall.wrKind \in {"short", "full"}

(* C15: an invocation prints at most one confirmation line, whatever the   *)
(* server delivers, and exactly one when it performed its state change (a  *)
(* brightness write, or a mute-set or volume-set request issued).          *)
C15_OneConfirmationLine ==
    /\ Len(stdout) <= 1
    /\ (BrightnessWritten \/ mutations # <<>>) => Len(stdout) = 1

(***************************************************************************)
(* Order of the callback chain (checked under SpecAudio).                  *)
(***************************************************************************)
ExpectedQuery(op) == IF op = "m" THEN "source" ELSE "sink"

ExpectedKind(op) ==
    IF op = "s" THEN "set_sink_mute"
    ELSE IF op = "v" THEN "set_sink_volume" ELSE "set_source_mute"

(* C16: the server info is asked for only once the connection is Ready;    *)
(* its reply asks for the sink (v, s) or the source (m) by name; a         *)
(* mutation is issued only after that, for a record of the reply, and is   *)
(* of the kind of the operation; Failed asks the loop to quit with 1, and  *)
(* the states before Ready issue nothing and ask for no shutdown.          *)
C16_ChainOrder ==
    /\ srvInfo # "none" => ctxState \in {"ready", "failed"}
    /\ ctxState = "ready" => srvInfo # "none"
    /\ devQuery # "none" => srvInfo = "done" /\ devQuery = ExpectedQuery(pulse_op)
    /\ (srvInfo = "done" /\ pc # "crashed") => devQuery = ExpectedQuery(pulse_op)
    /\ devState # "none" => devQuery # "none"
    /\ mutations # <<>> =>
         /\ devQuery # "none" /\ devState \in {"rows", "ended"}
         /\ Len(mutations) <= rows
         /\ \A k \in 1..Len(mutations) : mutations[k].kind = ExpectedKind(pulse_op)
    /\ ctxState = "failed" => quit = [req |-> TRUE, code |-> 1]
    /\ ctxState \in {"connecting", "authorizing", "setting_name"} =>
         /\ srvInfo = "none" /\ devQuery = "none" /\ mutations = <<>>
         /\ quit.req => quit.code = 0

(* A volume request was issued on a Ready connection, after the sink's     *)
(* record.                                                                 *)
C16_Witness ==
    /\ pulse_op = "v" /\ ctxState = "ready" /\ srvInfo = "done"
    /\ devQuery = "sink" /\ rows = 1
    /\ Len(mutations) = 1 /\ mutations[1].kind = "set_sink_volume"

(***************************************************************************)
(* Termination of the audio path (checked under SpecAudioFair).            *)
(***************************************************************************)
(* C17: when the server answers every request and the loop dispatches      *)
(* every completion, an audio invocation whose connection has reported     *)
(* Ready or Failed eventually leaves the loop and the process ends.        *)
C17_AudioPathTerminates ==
    (pc = "run" /\ ctxState \in {"ready", "failed"}) ~> Finished

(* C18: once a mutation was issued, the loop is asked to quit with success *)
(* only by the mutation's completion (do_pulse_success) or by the signal   *)
(* handler; the end-of-list marker that follows the record changes         *)
(* nothing, so the program does not drop its own request.                  *)
C18_OnlyCompletionEndsMutation ==
    [][ /\ (mutations' # <<>> /\ ~quit.req /\ quit'.req /\ quit'.code = 0)
              => (MutationAck \/ Signal)
        /\ (DevInfoEol /\ rows > 0) => UNCHANGED <<quit, mutations, stdout>> ]_vars

(* The end of the list has followed the record, the request is still       *)
(* unanswered, and the loop runs on.                                       *)
C18_Witness ==
    /\ Running /\ devState = "ended" /\ rows > 0
    /\ InFlight # {} /\ acked = "none"

(***************************************************************************)
(* The arithmetic of the two adjustments (checked under SpecMachine).      *)
(***************************************************************************)
(* The volume the mathematical sum maxvol + d leads to, for maxvol >= 0:   *)
(* a sum beyond 32 bits is far above normal.                               *)
VolumeOfSum(maxvol, d) ==
    IF d > 0 /\ maxvol > IntMax - d THEN PA_VOLUME_NORM
    ELSE target_volume(maxvol + d)

(* C19: the addition of the delta never wraps: the volume asked of the     *)
(* server is the one the mathematical sum (largest channel volume + delta) *)
(* leads to, within [silence, normal], and the brightness computed from a  *)
(* current value in [0, max] is the mathematical sum clamped to [0, max].  *)
C19_AdditionNeverWraps ==
    /\ \A k \in 1..Len(mutations) :
         IsVolumeRequest(mutations[k])
         => /\ pa_cvolume_max(mutations[k].volume) = VolumeOfSum(SnapMaxVolume, pulse_arg)
            /\ computed >= SnapMaxVolume <=> pulse_arg >= 0
    /\ (/\ brCall.called /\ brCall.writes = 1
        /\ CurScan.value >= 0 /\ CurScan.value <= max_br_of(MaxScan))
       => brCall.value = ClampOfSum(CurScan.value, brCall.delta, max_br_of(MaxScan))

(***************************************************************************)
(* Memory safety of read_sysfs (checked under SpecBrightness).             *)
(***************************************************************************)
(* C20: whatever open and read return, the terminator read_sysfs stores    *)
(* goes to an index within the caller's buffer, 0 .. buflen - 1.           *)
C20_TerminatorInBuffer ==
    brCall.called =>
        \A k \in 1..Len(brCall.terms) :
            brCall.terms[k] >= 0 /\ brCall.terms[k] <= BufLen - 1

=============================================================================
